---- MODULE Spec2Model ----
(***************************************************************************)
(* Model of src/app.py: the CFP playoff odds tracker.  One Streamlit       *)
(* session is a state machine whose steps are page reruns.  The retained   *)
(* price map, the ticker tape and the last refresh time live in            *)
(* st.session_state; rows and movers are the script's locals after a run.  *)
(*                                                                         *)
(* Optional values (Python None) are sequences of length at most one:      *)
(* None is << >> and a present value v is << v >>.  A raw market is a      *)
(* function whose DOMAIN is the set of keys the upstream JSON carries.     *)
(***************************************************************************)
EXTENDS Integers, Sequences, FiniteSets, TLC

(* ---------- bounds of the model ---------- *)
MaxMarkets == 3
MaxPrice == 2
MaxRuns == 3
MaxMove == 2

(* ---------- values ---------- *)
None == << >>
Some(v) == << v >>

\* Strings the model uses, in Python's str order ("" < "A" < "B" < "Bama").
StrOrder == << "", "A", "B", "Bama" >>
StrRank(s) == CHOOSE i \in 1..Len(StrOrder) : StrOrder[i] = s
StrLess(a, b) == StrRank(a) < StrRank(b)

Abs(x) == IF x < 0 THEN -x ELSE x
Min2(a, b) == IF a < b THEN a ELSE b

\* m.get(k): the value under k, None when the key is missing
Get(m, k) == IF k \in DOMAIN m THEN Some(m[k]) ELSE None
\* m.get(k, d): the value under k, d when the key is missing
GetDefault(m, k, d) == IF k \in DOMAIN m THEN m[k] ELSE d

(* ---------- sidebar slider for min_move ---------- *)
min_value == 1
max_value == 10
value == 2
\* a slider that starts at 0 (used to test C7_DirectionFollowsSign)
MinMoveChoices_from_zero == 0 .. Min2(max_value, MaxMove)
MinMoveChoices == min_value .. Min2(max_value, MaxMove)

(* ---------- fetch_cfp_markets: sort ---------- *)
\* a sort key whose stand-in for a missing price is 0 (used to test C9_NormalizationOrder)
sort_key_zero(m) ==
    LET yp == IF Get(m, "yes_price") = None THEN 0 ELSE m["yes_price"]
    IN  << -yp, GetDefault(m, "title", GetDefault(m, "ticker", "")) >>

\* sort_key(m) = (-yp, title-or-ticker), yp = -1 when yes_price is None
sort_key(m) ==
    LET yp == IF Get(m, "yes_price") = None THEN -1 ELSE m["yes_price"]
    IN  << -yp, GetDefault(m, "title", GetDefault(m, "ticker", "")) >>

\* Python's tuple order on sort keys
KeyLess(a, b) == \/ a[1] < b[1]
                 \/ a[1] = b[1] /\ StrLess(a[2], b[2])

\* list.sort is stable: an element goes after every element that is not greater
RECURSIVE InsertSorted(_, _)
InsertSorted(s, m) ==
    IF s = << >> THEN << m >>
    ELSE IF KeyLess(sort_key(m), sort_key(Head(s)))
         THEN << m >> \o s
         ELSE << Head(s) >> \o InsertSorted(Tail(s), m)

RECURSIVE SortMarkets(_)
SortMarkets(ms) ==
    IF ms = << >> THEN << >>
    ELSE InsertSorted(SortMarkets(SubSeq(ms, 1, Len(ms) - 1)), ms[Len(ms)])

(* ---------- summarize_cfp_markets ---------- *)
summarize_row(m) ==
    [ Team   |-> GetDefault(m, "title", GetDefault(m, "ticker", "")),
      Ticker |-> GetDefault(m, "ticker", ""),
      YES    |-> Get(m, "yes_price"),
      NO     |-> Get(m, "no_price"),
      Volume |-> Get(m, "volume") ]

summarize_cfp_markets(markets) ==
    [ i \in 1..Len(markets) |-> summarize_row(markets[i]) ]

(* ---------- compute_movers ---------- *)
\* prev_prices.get(ticker)
PrevGet(prev_prices, ticker) ==
    IF ticker \in DOMAIN prev_prices THEN Some(prev_prices[ticker]) ELSE None

\* a strict comparison (used to test C1_ThresholdGating)
emits_strict(diff, min_move_points) == Abs(diff) > min_move_points
\* `if abs(diff) >= min_move_points`
emits(diff, min_move_points) == Abs(diff) >= min_move_points

\* the movers list, in row order
RECURSIVE movers_of(_, _, _)
movers_of(current_rows, prev_prices, min_move_points) ==
    IF current_rows = << >> THEN << >>
    ELSE LET row    == Head(current_rows)
             rest   == movers_of(Tail(current_rows), prev_prices, min_move_points)
             ticker == row.Ticker
             price  == row.YES
             prev   == PrevGet(prev_prices, ticker)
         IN  IF price = None THEN rest
             ELSE IF prev = None THEN rest
             ELSE LET diff == price[1] - prev[1]
                  IN  IF emits(diff, min_move_points)
                      THEN << [ Team |-> row.Team, Ticker |-> ticker,
                                Prev |-> prev[1], Now |-> price[1],
                                Diff |-> diff ] >> \o rest
                      ELSE rest

\* a map that starts from a copy of the previous one (used to test C3_WholesaleReplacement)
new_prices_merged(current_rows, prev_prices) ==
    LET priced == { i \in 1..Len(current_rows) : current_rows[i].YES # None }
        keys   == { current_rows[i].Ticker : i \in priced }
        last(t) == CHOOSE i \in priced :
                      /\ current_rows[i].Ticker = t
                      /\ \A j \in priced : current_rows[j].Ticker = t => j <= i
    IN  [ t \in keys \cup DOMAIN prev_prices |->
            IF t \in keys THEN current_rows[last(t)].YES[1] ELSE prev_prices[t] ]

\* the new_prices dict: starts empty (prev_prices is only read), and a later
\* row overwrites an earlier one with the same ticker
new_prices_of(current_rows, prev_prices) ==
    LET priced == { i \in 1..Len(current_rows) : current_rows[i].YES # None }
        keys   == { current_rows[i].Ticker : i \in priced }
        last(t) == CHOOSE i \in priced :
                      /\ current_rows[i].Ticker = t
                      /\ \A j \in priced : current_rows[j].Ticker = t => j <= i
    IN  [ t \in keys |-> current_rows[last(t)].YES[1] ]

(* ---------- ticker tape line ---------- *)
direction_of(diff) == IF diff > 0 THEN "UP" ELSE "DOWN"
sign_of(diff) == IF diff > 0 THEN "+" ELSE ""

tape_line(now_str, m) ==
    [ ts |-> now_str, Ticker |-> m.Ticker, Team |-> m.Team,
      Prev |-> m.Prev, Now |-> m.Now, sign |-> sign_of(m.Diff),
      Diff |-> m.Diff, direction |-> direction_of(m.Diff) ]

tape_lines(now_str, movers_list) ==
    [ i \in 1..Len(movers_list) |-> tape_line(now_str, movers_list[i]) ]

\* a tape that keeps only the lines of the latest refresh (used to test C8_TapeAppendOnly)
tape_replaced(tape, lines) == lines
\* cfp_tape.append(line) for every line
tape_appended(tape, lines) == tape \o lines

(* ---------- what the tabs render from the script's locals ---------- *)
\* tab_table: `if rows:` shows the dataframe, else "No markets found."
table_view(r) == IF r # None /\ r[1] # << >> THEN "dataframe" ELSE "No markets found."

\* tab_movers: None asks for a refresh, an empty list reports no movers
movers_view(mv) ==
    IF mv = None THEN "Hit Refresh now to compute movers."
    ELSE IF mv[1] # << >> THEN "dataframe"
    ELSE "No movers above the threshold on the last refresh."

(* ---------- upstream responses ---------- *)
\* The markets the event lists in the session: one with a title, one without,
\* where the second is a malformed record that carries no ticker either.
Listings == { ("ticker" :> "A") @@ ("title" :> "Bama"),
              << >> }

Quotes == Listings \cup
          { l @@ ("yes_price" :> p) : l \in Listings, p \in 0..MaxPrice }

ListingOf(q) == [ k \in (DOMAIN q) \ {"yes_price"} |-> q[k] ]

\* a response lists each market at most once, in any order, priced or not
Feed == { ms \in UNION { [1..n -> Quotes] : n \in 0..Cardinality(Listings) } :
            \A i, j \in 1..Len(ms) : i # j => ListingOf(ms[i]) # ListingOf(ms[j]) }

\* Responses for the function-level specification: up to MaxMarkets records,
\* equal records and equal tickers allowed.  A record is one of these shapes,
\* with or without a yes_price.
FetchShapes == { << >>,
                 ("ticker" :> "A"),
                 ("ticker" :> "A") @@ ("title" :> "Bama"),
                 ("title" :> "Bama"),
                 ("ticker" :> "B") @@ ("last_price" :> MaxPrice) }

FetchQuotes == FetchShapes \cup
               { l @@ ("yes_price" :> p) : l \in FetchShapes, p \in 0..MaxPrice }

FetchInputs == UNION { [1..n -> FetchQuotes] : n \in 0..MaxMarkets }

(* ---------- state ---------- *)
\* st.session_state: cfp_prev_prices, cfp_tape, last_refresh_ts
\* the script's locals after a rerun: min_move, rows, movers
\* clock: wall-clock time, one tick per rerun
\* error_shown: st.error was called in the last rerun
\* outcome: which path the last rerun (or function-level step) took
\* before: the session state as the last rerun found it, and snapshot, the
\*         rows of the latest successful refresh_data (history variables)
\* raw_markets, markets: the upstream response and the return value of
\*         fetch_cfp_markets in the function-level specification
VARIABLES cfp_prev_prices, cfp_tape, last_refresh_ts, clock, min_move,
          rows, movers, error_shown, outcome, before, snapshot,
          raw_markets, markets

vars == << cfp_prev_prices, cfp_tape, last_refresh_ts, clock, min_move,
           rows, movers, error_shown, outcome, before, snapshot,
           raw_markets, markets >>

SessionState ==
    [ prices |-> cfp_prev_prices, tape |-> cfp_tape,
      ts |-> last_refresh_ts, snapshot |-> snapshot ]

InitSession ==
    /\ cfp_prev_prices = << >>
    /\ cfp_tape = << >>
    /\ last_refresh_ts = None
    /\ clock = 0
    /\ min_move = value
    /\ rows = None
    /\ movers = None
    /\ error_shown = FALSE
    /\ outcome = "start"
    /\ snapshot = << >>
    /\ before = [ prices |-> << >>, tape |-> << >>, ts |-> None, snapshot |-> << >> ]
    /\ markets = << >>

Init == InitSession /\ raw_markets = << >>

\* a rerun calls refresh_data when the button is pressed or nothing was fetched yet
CallsRefresh(button) == button \/ last_refresh_ts = None

\* every rerun: time passes, the slider is read, the session state is as found
Rerun(thr) ==
    /\ clock < MaxRuns
    /\ clock' = clock + 1
    /\ min_move' = thr
    /\ before' = SessionState
    /\ UNCHANGED << raw_markets, markets >>

\* refresh_data, fetch_cfp_markets returned
RefreshSucceeds ==
    \E thr \in MinMoveChoices, raw \in Feed :
        /\ Rerun(thr)
        /\ \E button \in BOOLEAN : CallsRefresh(button)
        /\ LET r == summarize_cfp_markets(SortMarkets(raw))
               mv == movers_of(r, cfp_prev_prices, thr)
           IN  /\ cfp_prev_prices' = new_prices_of(r, cfp_prev_prices)
               /\ last_refresh_ts' = Some(clock')
               /\ cfp_tape' = tape_appended(cfp_tape, tape_lines(clock', mv))
               /\ rows' = Some(r)
               /\ movers' = Some(mv)
               /\ snapshot' = r
        /\ error_shown' = FALSE
        /\ outcome' = "refresh_ok"

\* a failed refresh that also clears the retained map (used to test C2_FetchFailureKeepsState)
RefreshFails_clearing ==
    \E thr \in MinMoveChoices :
        /\ Rerun(thr)
        /\ \E button \in BOOLEAN : CallsRefresh(button)
        /\ error_shown' = TRUE
        /\ rows' = Some(<< >>)
        /\ movers' = Some(<< >>)
        /\ outcome' = "refresh_fail"
        /\ cfp_prev_prices' = << >>
        /\ UNCHANGED << cfp_tape, last_refresh_ts, snapshot >>

\* refresh_data, fetch_cfp_markets raised
RefreshFails ==
    \E thr \in MinMoveChoices :
        /\ Rerun(thr)
        /\ \E button \in BOOLEAN : CallsRefresh(button)
        /\ error_shown' = TRUE
        /\ rows' = Some(<< >>)
        /\ movers' = Some(<< >>)
        /\ outcome' = "refresh_fail"
        /\ UNCHANGED << cfp_prev_prices, cfp_tape, last_refresh_ts, snapshot >>

\* a display-only fetch that also stores its prices (used to test C10_DeltasAgainstLastRefresh)
DisplaySucceeds_storing ==
    \E thr \in MinMoveChoices, raw \in Feed :
        /\ Rerun(thr)
        /\ ~CallsRefresh(FALSE)
        /\ rows' = Some(summarize_cfp_markets(SortMarkets(raw)))
        /\ movers' = None
        /\ error_shown' = FALSE
        /\ outcome' = "display_ok"
        /\ cfp_prev_prices' = new_prices_of(rows'[1], cfp_prev_prices)
        /\ UNCHANGED << cfp_tape, last_refresh_ts, snapshot >>

\* no refresh_data: rows = None, movers = None, then the display-only fetch
DisplaySucceeds ==
    \E thr \in MinMoveChoices, raw \in Feed :
        /\ Rerun(thr)
        /\ ~CallsRefresh(FALSE)
        /\ rows' = Some(summarize_cfp_markets(SortMarkets(raw)))
        /\ movers' = None
        /\ error_shown' = FALSE
        /\ outcome' = "display_ok"
        /\ UNCHANGED << cfp_prev_prices, cfp_tape, last_refresh_ts, snapshot >>

DisplayFails ==
    \E thr \in MinMoveChoices :
        /\ Rerun(thr)
        /\ ~CallsRefresh(FALSE)
        /\ rows' = Some(<< >>)
        /\ movers' = None
        /\ error_shown' = TRUE
        /\ outcome' = "display_fail"
        /\ UNCHANGED << cfp_prev_prices, cfp_tape, last_refresh_ts, snapshot >>

Next == RefreshSucceeds \/ RefreshFails \/ DisplaySucceeds \/ DisplayFails

Spec == Init /\ [][Next]_vars

(* ---------- function-level specification: fetch, then summarize ---------- *)
InitFetch == InitSession /\ raw_markets \in FetchInputs

FetchStep ==
    /\ outcome = "start"
    /\ markets' = SortMarkets(raw_markets)
    /\ outcome' = "fetched"
    /\ UNCHANGED << cfp_prev_prices, cfp_tape, last_refresh_ts, clock, min_move,
                    rows, movers, error_shown, before, snapshot, raw_markets >>

SummarizeStep ==
    /\ outcome = "fetched"
    /\ rows' = Some(summarize_cfp_markets(markets))
    /\ outcome' = "summarized"
    /\ UNCHANGED << cfp_prev_prices, cfp_tape, last_refresh_ts, clock, min_move,
                    movers, error_shown, before, snapshot, raw_markets, markets >>

NextFetch == FetchStep \/ SummarizeStep

SpecFetch == InitFetch /\ [][NextFetch]_vars

(* ====================== claims ====================== *)
IsPrefix(s, t) == Len(s) <= Len(t) /\ SubSeq(t, 1, Len(s)) = s
Priced(rs) == { i \in DOMAIN rs : rs[i].YES # None }
Count(S) == Cardinality(S)

\* C1 (threshold gating): after a successful refresh, every row that has a YES
\* price and whose ticker had a price in the retained map the refresh started
\* from has a mover (same ticker, Now = that price) exactly when
\* abs(price - previous price) >= min_move, and no more movers than rows.
C1_ThresholdGating ==
    outcome = "refresh_ok" =>
        LET r == rows[1]
            mv == movers[1]
            old == before.prices
        IN  \A i \in Priced(r) :
                r[i].Ticker \in DOMAIN old =>
                    LET like == { k \in Priced(r) : /\ r[k].Ticker = r[i].Ticker
                                                    /\ r[k].YES = r[i].YES }
                        hits == { j \in DOMAIN mv : /\ mv[j].Ticker = r[i].Ticker
                                                    /\ mv[j].Now = r[i].YES[1] }
                    IN  IF Abs(r[i].YES[1] - old[r[i].Ticker]) >= min_move
                        THEN Count(hits) = Count(like)
                        ELSE hits = {}

\* at threshold 2 one row moved by exactly 2 (a mover) and another by 1 (none)
C1_Witness ==
    /\ outcome = "refresh_ok"
    /\ min_move = 2
    /\ \E j \in DOMAIN movers[1] : Abs(movers[1][j].Diff) = 2
    /\ \E i \in Priced(rows[1]) :
          /\ rows[1][i].Ticker \in DOMAIN before.prices
          /\ Abs(rows[1][i].YES[1] - before.prices[rows[1][i].Ticker]) = 1
          /\ \A j \in DOMAIN movers[1] : movers[1][j].Ticker # rows[1][i].Ticker

\* C2 (fetch failure keeps state): after a refresh_data whose fetch raised, the
\* retained map, the tape and last_refresh_ts are what the rerun found, and
\* the movers returned are empty.
C2_FetchFailureKeepsState ==
    outcome = "refresh_fail" =>
        /\ cfp_prev_prices = before.prices
        /\ cfp_tape = before.tape
        /\ last_refresh_ts = before.ts
        /\ movers = Some(<< >>)

\* a refresh fails in a session that already holds prices and tape lines
C2_Witness ==
    /\ outcome = "refresh_fail"
    /\ cfp_prev_prices # << >>
    /\ cfp_tape # << >>

\* C3 (wholesale replacement): after a successful refresh the retained map's
\* keys are exactly the tickers of the returned rows that carry a YES price,
\* each mapped to the YES price of such a row; a key of the earlier map whose
\* ticker has no priced row is gone.
C3_WholesaleReplacement ==
    outcome = "refresh_ok" =>
        LET r == rows[1]
        IN  /\ DOMAIN cfp_prev_prices = { r[i].Ticker : i \in Priced(r) }
            /\ \A t \in DOMAIN cfp_prev_prices :
                  \E i \in Priced(r) : r[i].Ticker = t /\ r[i].YES[1] = cfp_prev_prices[t]
            /\ \A t \in DOMAIN before.prices :
                  (\A i \in Priced(r) : r[i].Ticker # t) => t \notin DOMAIN cfp_prev_prices

\* a ticker of the earlier map is missing from the new snapshot, another is kept
C3_Witness ==
    /\ outcome = "refresh_ok"
    /\ cfp_prev_prices # << >>
    /\ \E t \in DOMAIN before.prices : t \notin DOMAIN cfp_prev_prices

\* what refresh_data hands back, and what the two tabs make of it
Surfaced(r, mv) == << r, mv, table_view(r), movers_view(mv) >>
SurfacedOnEmptyDataset ==
    LET r == summarize_cfp_markets(SortMarkets(<< >>))
    IN  Surfaced(Some(r), Some(movers_of(r, before.prices, min_move)))

\* C4 (failure is distinguishable from empty): what refresh_data returns for a
\* failed fetch, and the table and movers views built from it, differ from
\* what it returns for a successful fetch of zero markets.
C4_FailureDistinctFromEmpty ==
    outcome = "refresh_fail" => Surfaced(rows, movers) # SurfacedOnEmptyDataset

\* the spec's price selection: yes_price if present, else last_price, else absent
selected_price(m) ==
    IF Get(m, "yes_price") # None THEN Get(m, "yes_price") ELSE Get(m, "last_price")

\* C5 (price fallback): the price of every display row is yes_price when
\* present, otherwise last_price, and absent only when both are absent.
C5_PriceFallback ==
    outcome = "summarized" =>
        \A i \in DOMAIN markets : rows[1][i].YES = selected_price(markets[i])

\* C6 (records without an identifier are excluded): no row, no key of the
\* retained map, no mover and no tape line has a blank ticker.
C6_NoBlankIdentifier ==
    /\ rows # None => \A i \in DOMAIN rows[1] : rows[1][i].Ticker # ""
    /\ "" \notin DOMAIN cfp_prev_prices
    /\ movers # None => \A j \in DOMAIN movers[1] : movers[1][j].Ticker # ""
    /\ \A n \in DOMAIN cfp_tape : cfp_tape[n].Ticker # ""

C8_TapeAppendOnly ==
    /\ IsPrefix(before.tape, cfp_tape)
    /\ outcome = "refresh_ok" =>
          /\ Len(cfp_tape) = Len(before.tape) + Len(movers[1])
          /\ \A j \in DOMAIN movers[1] :
                LET line == cfp_tape[Len(before.tape) + j]
                IN  /\ line.Ticker = movers[1][j].Ticker
                    /\ line.Team = movers[1][j].Team
                    /\ line.Prev = movers[1][j].Prev
                    /\ line.Now = movers[1][j].Now
                    /\ line.Diff = movers[1][j].Diff
    /\ outcome \in { "refresh_fail", "display_ok", "display_fail" } =>
          cfp_tape = before.tape

\* a refresh adds two lines to a tape that already has lines
C8_Witness ==
    /\ outcome = "refresh_ok"
    /\ before.tape # << >>
    /\ Len(movers[1]) = 2
    /\ movers[1][1].Ticker # movers[1][2].Ticker

\* the value fetch_cfp_markets sorts by
SortValue(m) == Get(m, "yes_price")
SortName(m) == GetDefault(m, "title", GetDefault(m, "ticker", ""))
Arrangements(n) == { f \in [1..n -> 1..n] : \A a, b \in 1..n : a # b => f[a] # f[b] }

\* C9 (normalization order): fetch_cfp_markets returns the markets it was given,
\* valued ones before unvalued ones, valued ones by value descending, and
\* markets with the same value and name in the order the input had them.
C9_NormalizationOrder ==
    outcome = "fetched" =>
        /\ Len(markets) = Len(raw_markets)
        /\ \A i, j \in DOMAIN markets :
              i < j =>
                  /\ SortValue(markets[i]) = None => SortValue(markets[j]) = None
                  /\ (SortValue(markets[i]) # None /\ SortValue(markets[j]) # None)
                        => SortValue(markets[i])[1] >= SortValue(markets[j])[1]
        /\ \E f \in Arrangements(Len(markets)) :
              /\ \A i \in DOMAIN markets : markets[i] = raw_markets[f[i]]
              /\ \A i, j \in DOMAIN markets :
                    (/\ i < j
                     /\ SortValue(markets[i]) = SortValue(markets[j])
                     /\ SortName(markets[i]) = SortName(markets[j])) => f[i] < f[j]

\* the sort moved a valued market ahead of an unvalued one and kept two
\* different markets of equal value and name in input order
C9_Witness ==
    /\ outcome = "fetched"
    /\ markets # raw_markets
    /\ \E i, j \in DOMAIN raw_markets :
          i < j /\ SortValue(raw_markets[i]) = None /\ SortValue(raw_markets[j]) # None
    /\ \E i, j \in DOMAIN markets :
          /\ i < j
          /\ markets[i] # markets[j]
          /\ SortValue(markets[i]) = SortValue(markets[j])
          /\ SortName(markets[i]) = SortName(markets[j])

\* C10 (deltas against the preceding successful refresh): every mover of a
\* successful refresh has Now = the YES price of a row of that refresh with its
\* ticker, Prev = the YES price of a row of the latest earlier successful
\* refresh with its ticker, and Diff = Now - Prev; a ticker with no priced row
\* in that earlier refresh has no mover, and the first refresh has none at all.
C10_DeltasAgainstLastRefresh ==
    outcome = "refresh_ok" =>
        LET r == rows[1]
            mv == movers[1]
            old == before.snapshot
        IN  /\ \A j \in DOMAIN mv :
                  /\ \E i \in Priced(r) : /\ r[i].Ticker = mv[j].Ticker
                                          /\ r[i].YES[1] = mv[j].Now
                  /\ \E k \in Priced(old) : /\ old[k].Ticker = mv[j].Ticker
                                            /\ old[k].YES[1] = mv[j].Prev
                  /\ mv[j].Diff = mv[j].Now - mv[j].Prev
            /\ \A i \in DOMAIN r :
                  (\A k \in Priced(old) : old[k].Ticker # r[i].Ticker)
                      => \A j \in DOMAIN mv : mv[j].Ticker # r[i].Ticker
            /\ before.ts = None => mv = << >>

\* a mover is computed after a rerun that did not refresh successfully
C10_Witness ==
    /\ outcome = "refresh_ok"
    /\ movers[1] # << >>
    /\ before.ts # None
    /\ before.ts # Some(clock - 1)

====
